---- MODULE Spec2Model ----
(***************************************************************************)
(* A model of the CLibUSB binding: the two headers                         *)
(*   Sources/CLibUSB/LibUSBBridge.h            (constants and prototypes)  *)
(*   Modules/LibUSB/Sources/CLibUSB/shim.h     (libusb header search)      *)
(* as the C preprocessor reads them in one translation unit, followed by   *)
(* the calls a consumer makes to libusb_interrupt_transfer through the     *)
(* declared prototype.                                                     *)
(*                                                                         *)
(* A header is a sequence of items, one per directive or declaration of    *)
(* the file, in file order (blank lines carry nothing and are left out).   *)
(* The translation unit is a sequence of #include directives naming the    *)
(* two headers; the environment is the set of libusb headers the include   *)
(* path offers.                                                            *)
(***************************************************************************)
EXTENDS Integers, Sequences, FiniteSets, TLC

\* The longest translation unit explored: its number of #include directives
\* of the two headers.
MaxIncludes == 3

----------------------------------------------------------------------------
(* Items of a header.  Every item has the same fields:                     *)
(*   op     the directive or the kind of declaration                       *)
(*   name   the macro, header, type or function it names                   *)
(*   body   a macro's replacement list (<<>> when empty, <<v>> a number)   *)
(*   ret    a prototype's return type                                      *)
(*   params a prototype's parameter types                                  *)
(*   def    TRUE when the item defines storage, a struct body or a         *)
(*          function body (FALSE for a declaration only)                   *)
(*   line   its first line in the file                                     *)

Directive(op, name, line) ==
    [op |-> op, name |-> name, body |-> <<>>, ret |-> "", params |-> <<>>,
     def |-> FALSE, line |-> line]

Define(name, body, line) ==
    [op |-> "define", name |-> name, body |-> body, ret |-> "",
     params |-> <<>>, def |-> FALSE, line |-> line]

\* typedef struct tag name;  -- the struct is declared, never completed
TypedefStruct(name, line) ==
    [op |-> "typedef", name |-> name, body |-> <<>>, ret |-> "",
     params |-> <<>>, def |-> FALSE, line |-> line]

Prototype(name, ret, params, line) ==
    [op |-> "proto", name |-> name, body |-> <<>>, ret |-> ret,
     params |-> params, def |-> FALSE, line |-> line]

----------------------------------------------------------------------------
(* LibUSBBridge.h                                                          *)

libusb_context       == TypedefStruct("libusb_context", 7)
libusb_device        == TypedefStruct("libusb_device", 8)
\* the handle type given a struct body
libusb_device_handle_with_body ==
    [TypedefStruct("libusb_device_handle", 9) EXCEPT !.def = TRUE]
libusb_device_handle == TypedefStruct("libusb_device_handle", 9)

LIBUSB_SUCCESS               == 0
LIBUSB_ERROR_IO              == -1
LIBUSB_ERROR_INVALID_PARAM   == -2
LIBUSB_ERROR_ACCESS          == -3
LIBUSB_ERROR_NO_DEVICE       == -4
LIBUSB_ERROR_NOT_FOUND       == -5
LIBUSB_ERROR_BUSY            == -6
LIBUSB_ERROR_TIMEOUT         == -7
\* the value of the line above repeated
LIBUSB_ERROR_PIPE_as_timeout == LIBUSB_ERROR_TIMEOUT
LIBUSB_ERROR_PIPE            == -8
LIBUSB_ERROR_INTERRUPTED     == -10
LIBUSB_ERROR_NO_MEM          == -11
LIBUSB_ERROR_NOT_SUPPORTED   == -12

LIBUSB_TRANSFER_TYPE_INTERRUPT == 3

\* the direction bit written 0x08
LIBUSB_ENDPOINT_IN_0x08 == 2 * 2 * 2
LIBUSB_ENDPOINT_IN  == 128
LIBUSB_ENDPOINT_OUT == 0

libusb_init ==
    Prototype("libusb_init", "int", <<"libusb_context **">>, 29)
libusb_exit ==
    Prototype("libusb_exit", "void", <<"libusb_context *">>, 30)
libusb_open_device_with_vid_pid ==
    Prototype("libusb_open_device_with_vid_pid", "libusb_device_handle *",
              <<"libusb_context *", "uint16_t", "uint16_t">>, 32)
libusb_close ==
    Prototype("libusb_close", "void", <<"libusb_device_handle *">>, 35)
libusb_kernel_driver_active ==
    Prototype("libusb_kernel_driver_active", "int",
              <<"libusb_device_handle *", "int">>, 37)
libusb_detach_kernel_driver ==
    Prototype("libusb_detach_kernel_driver", "int",
              <<"libusb_device_handle *", "int">>, 39)
libusb_attach_kernel_driver ==
    Prototype("libusb_attach_kernel_driver", "int",
              <<"libusb_device_handle *", "int">>, 41)
libusb_claim_interface ==
    Prototype("libusb_claim_interface", "int",
              <<"libusb_device_handle *", "int">>, 44)
libusb_release_interface ==
    Prototype("libusb_release_interface", "int",
              <<"libusb_device_handle *", "int">>, 46)
libusb_interrupt_transfer ==
    Prototype("libusb_interrupt_transfer", "int",
              <<"libusb_device_handle *", "unsigned char", "unsigned char *",
                "int", "int *", "unsigned int">>, 49)
\* the reset declared without a result
libusb_reset_device_returning_void ==
    Prototype("libusb_reset_device", "void", <<"libusb_device_handle *">>, 54)
libusb_reset_device ==
    Prototype("libusb_reset_device", "int", <<"libusb_device_handle *">>, 54)

LibUSBBridge_h ==
    << Directive("ifndef", "LibUSBBridge_h", 1),
       Define("LibUSBBridge_h", <<>>, 2),
       Directive("include", "stddef.h", 4),
       Directive("include", "stdint.h", 5),
       libusb_context,
       libusb_device,
       libusb_device_handle,
       Define("LIBUSB_SUCCESS", <<LIBUSB_SUCCESS>>, 11),
       Define("LIBUSB_ERROR_IO", <<LIBUSB_ERROR_IO>>, 12),
       Define("LIBUSB_ERROR_INVALID_PARAM", <<LIBUSB_ERROR_INVALID_PARAM>>, 13),
       Define("LIBUSB_ERROR_ACCESS", <<LIBUSB_ERROR_ACCESS>>, 14),
       Define("LIBUSB_ERROR_NO_DEVICE", <<LIBUSB_ERROR_NO_DEVICE>>, 15),
       Define("LIBUSB_ERROR_NOT_FOUND", <<LIBUSB_ERROR_NOT_FOUND>>, 16),
       Define("LIBUSB_ERROR_BUSY", <<LIBUSB_ERROR_BUSY>>, 17),
       Define("LIBUSB_ERROR_TIMEOUT", <<LIBUSB_ERROR_TIMEOUT>>, 18),
       Define("LIBUSB_ERROR_PIPE", <<LIBUSB_ERROR_PIPE>>, 19),
       Define("LIBUSB_ERROR_INTERRUPTED", <<LIBUSB_ERROR_INTERRUPTED>>, 20),
       Define("LIBUSB_ERROR_NO_MEM", <<LIBUSB_ERROR_NO_MEM>>, 21),
       Define("LIBUSB_ERROR_NOT_SUPPORTED", <<LIBUSB_ERROR_NOT_SUPPORTED>>, 22),
       Define("LIBUSB_TRANSFER_TYPE_INTERRUPT",
              <<LIBUSB_TRANSFER_TYPE_INTERRUPT>>, 24),
       Define("LIBUSB_ENDPOINT_IN", <<LIBUSB_ENDPOINT_IN>>, 26),
       Define("LIBUSB_ENDPOINT_OUT", <<LIBUSB_ENDPOINT_OUT>>, 27),
       libusb_init,
       libusb_exit,
       libusb_open_device_with_vid_pid,
       libusb_close,
       libusb_kernel_driver_active,
       libusb_detach_kernel_driver,
       libusb_attach_kernel_driver,
       libusb_claim_interface,
       libusb_release_interface,
       libusb_interrupt_transfer,
       libusb_reset_device,
       Directive("endif", "", 56) >>

----------------------------------------------------------------------------
(* shim.h                                                                  *)

VersionedHeader == "libusb-1.0/libusb.h"
PlainHeader     == "libusb.h"
CandidateHeaders == {VersionedHeader, PlainHeader}
HeadersNotFound == "libusb headers not found"

\* the search with its two candidates in the other order
CLibUSB_shim_plain_first ==
    << Directive("ifndef", "CLibUSB_shim", 1),
       Define("CLibUSB_shim", <<>>, 2),
       Directive("if_has_include", PlainHeader, 4),
       Directive("include", PlainHeader, 5),
       Directive("elif_has_include", VersionedHeader, 6),
       Directive("include", VersionedHeader, 7),
       Directive("else", "", 8),
       Directive("error", HeadersNotFound, 9),
       Directive("endif", "", 10),
       Directive("endif", "", 12) >>

\* the guard tested under one name and defined under another
CLibUSB_shim_guard_mismatch ==
    << Directive("ifndef", "CLibUSB_shim", 1),
       Define("CLibUSB_shim_h", <<>>, 2),
       Directive("if_has_include", VersionedHeader, 4),
       Directive("include", VersionedHeader, 5),
       Directive("elif_has_include", PlainHeader, 6),
       Directive("include", PlainHeader, 7),
       Directive("else", "", 8),
       Directive("error", HeadersNotFound, 9),
       Directive("endif", "", 10),
       Directive("endif", "", 12) >>

CLibUSB_shim ==
    << Directive("ifndef", "CLibUSB_shim", 1),
       Define("CLibUSB_shim", <<>>, 2),
       Directive("if_has_include", VersionedHeader, 4),
       Directive("include", VersionedHeader, 5),
       Directive("elif_has_include", PlainHeader, 6),
       Directive("include", PlainHeader, 7),
       Directive("else", "", 8),
       Directive("error", HeadersNotFound, 9),
       Directive("endif", "", 10),
       Directive("endif", "", 12) >>

Headers == {"shim.h", "LibUSBBridge.h"}

Items(f) == IF f = "shim.h" THEN CLibUSB_shim ELSE LibUSBBridge_h

----------------------------------------------------------------------------
(* The preprocessor's state.                                               *)

VARIABLES
    avail,      \* the candidate libusb headers the include path offers
    unit,       \* the translation unit: its #include directives, in order
    todo,       \* the #include directives not yet reached
    file,       \* the header being read ("none" between headers)
    pc,         \* the index of the next item of that header
    conds,      \* the stack of open conditionals: "on", "pending" or "off"
    macros,     \* the macro table: name -> replacement list
    output,     \* the declarations passed on to the compiler, in order
    included,   \* the system headers included, in order
    errors,     \* the #error messages reported
    searches,   \* how many times the header search (#if __has_include) ran
    starts,     \* per header, how many times its inclusion began
    phase,      \* "pp" while preprocessing, then "done" or "aborted"
    lastCall    \* the last call made through the binding

vars == <<avail, unit, todo, file, pc, conds, macros, output, included,
          errors, searches, starts, phase, lastCall>>

ppvars == <<conds, macros, output, included, errors, searches>>

Range(s) == {s[i] : i \in 1..Len(s)}

Units == UNION {[1..n -> Headers] : n \in 1..MaxIncludes}

NoCall == [fn |-> "", number |-> 0, direction |-> "", endpoint |-> 0]

Init ==
    /\ avail \in SUBSET CandidateHeaders
    /\ unit \in Units
    /\ todo = unit
    /\ file = "none"
    /\ pc = 1
    /\ conds = <<>>
    /\ macros = [n \in {} |-> <<>>]
    /\ output = <<>>
    /\ included = <<>>
    /\ errors = <<>>
    /\ searches = 0
    /\ starts = [h \in Headers |-> 0]
    /\ phase = "pp"
    /\ lastCall = NoCall

IsDefined(name) == name \in DOMAIN macros

\* the text is live when no enclosing conditional is being skipped; a
\* conditional opened inside a skipped group is pushed "off", so the top of
\* the stack decides
Active == conds = <<>> \/ conds[Len(conds)] = "on"

Reading == phase = "pp" /\ file # "none" /\ pc <= Len(Items(file))

Item == Items(file)[pc]

Push(c) == Append(conds, c)
SetTop(c) == [conds EXCEPT ![Len(conds)] = c]
Pop == SubSeq(conds, 1, Len(conds) - 1)

\* #include "shim.h" / #include "LibUSBBridge.h" in the translation unit
StartInclude ==
    /\ phase = "pp" /\ file = "none" /\ todo # <<>>
    /\ file' = Head(todo)
    /\ todo' = Tail(todo)
    /\ pc' = 1
    /\ starts' = [starts EXCEPT ![Head(todo)] = @ + 1]
    /\ UNCHANGED <<avail, unit, ppvars, phase, lastCall>>

\* #ifndef NAME
Ifndef ==
    /\ Reading /\ Item.op = "ifndef"
    /\ conds' = IF ~Active THEN Push("off")
                ELSE IF IsDefined(Item.name) THEN Push("pending")
                ELSE Push("on")
    /\ pc' = pc + 1
    /\ UNCHANGED <<avail, unit, todo, file, macros, output, included, errors,
                   searches, starts, phase, lastCall>>

\* #if __has_include(<H>)
IfHasInclude ==
    /\ Reading /\ Item.op = "if_has_include"
    /\ conds' = IF ~Active THEN Push("off")
                ELSE IF Item.name \in avail THEN Push("on")
                ELSE Push("pending")
    /\ searches' = IF Active THEN searches + 1 ELSE searches
    /\ pc' = pc + 1
    /\ UNCHANGED <<avail, unit, todo, file, macros, output, included, errors,
                   starts, phase, lastCall>>

\* #elif __has_include(<H>): evaluated only when no earlier group was taken
ElifHasInclude ==
    /\ Reading /\ Item.op = "elif_has_include" /\ conds # <<>>
    /\ conds' = IF conds[Len(conds)] = "pending" /\ Item.name \in avail
                THEN SetTop("on")
                ELSE IF conds[Len(conds)] = "pending" THEN conds
                ELSE SetTop("off")
    /\ pc' = pc + 1
    /\ UNCHANGED <<avail, unit, todo, file, macros, output, included, errors,
                   searches, starts, phase, lastCall>>

\* #else
Else ==
    /\ Reading /\ Item.op = "else" /\ conds # <<>>
    /\ conds' = IF conds[Len(conds)] = "pending" THEN SetTop("on")
                ELSE SetTop("off")
    /\ pc' = pc + 1
    /\ UNCHANGED <<avail, unit, todo, file, macros, output, included, errors,
                   searches, starts, phase, lastCall>>

\* #endif
Endif ==
    /\ Reading /\ Item.op = "endif" /\ conds # <<>>
    /\ conds' = Pop
    /\ pc' = pc + 1
    /\ UNCHANGED <<avail, unit, todo, file, macros, output, included, errors,
                   searches, starts, phase, lastCall>>

\* #define NAME body
DefineMacro ==
    /\ Reading /\ Item.op = "define" /\ Active
    /\ macros' = [n \in DOMAIN macros \cup {Item.name} |->
                    IF n = Item.name THEN Item.body ELSE macros[n]]
    /\ pc' = pc + 1
    /\ UNCHANGED <<avail, unit, todo, file, conds, output, included, errors,
                   searches, starts, phase, lastCall>>

\* #include <H> of a system header
IncludeSystem ==
    /\ Reading /\ Item.op = "include" /\ Active
    /\ included' = Append(included, Item.name)
    /\ pc' = pc + 1
    /\ UNCHANGED <<avail, unit, todo, file, conds, macros, output, errors,
                   searches, starts, phase, lastCall>>

\* a typedef or a prototype: passed on to the compiler
Declare ==
    /\ Reading /\ Item.op \in {"typedef", "proto"} /\ Active
    /\ output' = Append(output, Item)
    /\ pc' = pc + 1
    /\ UNCHANGED <<avail, unit, todo, file, conds, macros, included, errors,
                   searches, starts, phase, lastCall>>

\* #error "message": the build has failed; a compiler either goes on to
\* report what else it finds or stops at once
ErrorDirective ==
    /\ Reading /\ Item.op = "error" /\ Active
    /\ errors' = Append(errors, Item.name)
    /\ \/ /\ pc' = pc + 1
          /\ UNCHANGED <<file, phase>>
       \/ /\ phase' = "aborted"
          /\ UNCHANGED <<file, pc>>
    /\ UNCHANGED <<avail, unit, todo, conds, macros, output, included,
                   searches, starts, lastCall>>

\* text inside a group that is being skipped
SkipItem ==
    /\ Reading /\ ~Active
    /\ Item.op \in {"define", "include", "typedef", "proto", "error"}
    /\ pc' = pc + 1
    /\ UNCHANGED <<avail, unit, todo, file, ppvars, starts, phase, lastCall>>

\* the end of the header: back to the translation unit
EndOfFile ==
    /\ phase = "pp" /\ file # "none" /\ pc > Len(Items(file))
    /\ file' = "none"
    /\ pc' = 1
    /\ UNCHANGED <<avail, unit, todo, ppvars, starts, phase, lastCall>>

\* the end of the translation unit
Finish ==
    /\ phase = "pp" /\ file = "none" /\ todo = <<>>
    /\ phase' = "done"
    /\ UNCHANGED <<avail, unit, todo, file, pc, ppvars, starts, lastCall>>

----------------------------------------------------------------------------
(* Calls through the binding.  The endpoint parameter of                   *)
(* libusb_interrupt_transfer is an unsigned char (line 50); a consumer     *)
(* passes  number | LIBUSB_ENDPOINT_IN  or  number | LIBUSB_ENDPOINT_OUT.  *)

RECURSIVE BitOr(_, _)
BitOr(a, b) ==
    IF a = 0 THEN b
    ELSE IF b = 0 THEN a
    ELSE (IF a % 2 = 1 \/ b % 2 = 1 THEN 1 ELSE 0)
         + 2 * BitOr(a \div 2, b \div 2)

RECURSIVE BitAnd(_, _)
BitAnd(a, b) ==
    IF a = 0 \/ b = 0 THEN 0
    ELSE (IF a % 2 = 1 /\ b % 2 = 1 THEN 1 ELSE 0)
         + 2 * BitAnd(a \div 2, b \div 2)

\* the conversion of an int argument to the unsigned char parameter
ToUnsignedChar(x) == x % 256

\* the endpoint numbers a direction bit can be combined with
EndpointNumbers == 0..127

MacroValue(name) == macros[name][1]

EndpointAddress(number, direction) ==
    ToUnsignedChar(BitOr(number, MacroValue(direction)))

Declared(name) ==
    \E i \in 1..Len(output) : output[i].op = "proto" /\ output[i].name = name

\* libusb_interrupt_transfer(handle, number | direction, data, ...) in a
\* translation unit that compiled with LibUSBBridge.h
CallInterruptTransfer ==
    /\ phase = "done" /\ errors = <<>>
    /\ Declared("libusb_interrupt_transfer")
    /\ \E number \in EndpointNumbers,
          direction \in {"LIBUSB_ENDPOINT_IN", "LIBUSB_ENDPOINT_OUT"} :
          /\ IsDefined(direction)
          /\ lastCall' = [fn |-> "libusb_interrupt_transfer",
                          number |-> number,
                          direction |-> direction,
                          endpoint |-> EndpointAddress(number, direction)]
    /\ UNCHANGED <<avail, unit, todo, file, pc, ppvars, starts, phase>>

Next ==
    \/ StartInclude
    \/ Ifndef
    \/ IfHasInclude
    \/ ElifHasInclude
    \/ Else
    \/ Endif
    \/ DefineMacro
    \/ IncludeSystem
    \/ Declare
    \/ ErrorDirective
    \/ SkipItem
    \/ EndOfFile
    \/ Finish
    \/ CallInterruptTransfer

Spec == Init /\ [][Next]_vars

----------------------------------------------------------------------------
(* Properties.                                                             *)

\* the translation unit has been read to its end and includes LibUSBBridge.h
BridgeRead == phase = "done" /\ "LibUSBBridge.h" \in Range(unit)

\* preprocessing is over (at the end of the unit, or at the #error) in a
\* translation unit that includes shim.h
ShimRead == phase \in {"done", "aborted"} /\ "shim.h" \in Range(unit)

IsCandidate(h) == h \in CandidateHeaders

\* the libusb headers included, in order
Candidates == SelectSeq(included, IsCandidate)

\* C1: header selection in shim.h, for each of the four combinations of
\* availability: <libusb-1.0/libusb.h> is the one included whenever it is
\* available, <libusb.h> when it alone is available, and with neither the
\* build fails with "libusb headers not found"; a build that succeeds has
\* included exactly one of the two, and a build fails only with neither.
C1_HeaderSelection ==
    ShimRead =>
        /\ (VersionedHeader \in avail =>
                Candidates = <<VersionedHeader>> /\ errors = <<>>)
        /\ (VersionedHeader \notin avail /\ PlainHeader \in avail =>
                Candidates = <<PlainHeader>> /\ errors = <<>>)
        /\ (avail = {} =>
                Candidates = <<>> /\ errors = <<HeadersNotFound>>)
        /\ (errors = <<>> => Len(Candidates) = 1)
        /\ (errors # <<>> => avail = {})

\* both headers are on the include path and the versioned one was taken
C1_Witness ==
    /\ ShimRead /\ phase = "done"
    /\ avail = CandidateHeaders
    /\ Candidates = <<VersionedHeader>>

\* C2: every constant LibUSBBridge.h declares has the value libusb 1.0
\* publishes for the same name.  The published values are those of
\* enum libusb_error, enum libusb_transfer_type and
\* enum libusb_endpoint_direction in libusb.h, where
\* LIBUSB_ERROR_OVERFLOW = -8 and LIBUSB_ERROR_PIPE = -9.
C2_ConstantsMatchLibusb ==
    BridgeRead =>
        /\ macros["LIBUSB_SUCCESS"] = <<0>>
        /\ macros["LIBUSB_ERROR_IO"] = <<-1>>
        /\ macros["LIBUSB_ERROR_INVALID_PARAM"] = <<-2>>
        /\ macros["LIBUSB_ERROR_ACCESS"] = <<-3>>
        /\ macros["LIBUSB_ERROR_NO_DEVICE"] = <<-4>>
        /\ macros["LIBUSB_ERROR_NOT_FOUND"] = <<-5>>
        /\ macros["LIBUSB_ERROR_BUSY"] = <<-6>>
        /\ macros["LIBUSB_ERROR_TIMEOUT"] = <<-7>>
        /\ macros["LIBUSB_ERROR_PIPE"] = <<-9>>
        /\ macros["LIBUSB_ERROR_INTERRUPTED"] = <<-10>>
        /\ macros["LIBUSB_ERROR_NO_MEM"] = <<-11>>
        /\ macros["LIBUSB_ERROR_NOT_SUPPORTED"] = <<-12>>
        /\ macros["LIBUSB_TRANSFER_TYPE_INTERRUPT"] = <<3>>
        /\ macros["LIBUSB_ENDPOINT_IN"] = <<128>>
        /\ macros["LIBUSB_ENDPOINT_OUT"] = <<0>>

IsDeclaration(it) == it.op \in {"typedef", "proto"}

HandleTypes == {"libusb_context", "libusb_device", "libusb_device_handle"}

\* C5: the binding owns no state.  Nothing the headers pass on to the
\* compiler defines storage, a struct body or a function body: every item is
\* a typedef of a struct that stays incomplete or a prototype; the three
\* handle types are declared that way; handles only occur behind a pointer
\* in the prototypes; and a call through the binding leaves everything the
\* headers contributed as it was.
C5_NoBindingState ==
    /\ \A i \in 1..Len(output) :
          /\ output[i].op \in {"typedef", "proto"}
          /\ ~output[i].def
          /\ \A k \in 1..Len(output[i].params) :
                output[i].params[k] \notin HandleTypes
          /\ output[i].ret \notin HandleTypes
    /\ BridgeRead =>
          \A t \in HandleTypes :
             \E i \in 1..Len(output) :
                output[i].op = "typedef" /\ output[i].name = t
    /\ lastCall # NoCall =>
          /\ errors = <<>>
          /\ output = SelectSeq(LibUSBBridge_h, IsDeclaration)

\* a call was made through the binding
C5_Witness ==
    /\ BridgeRead
    /\ lastCall.fn = "libusb_interrupt_transfer"
    /\ \E i \in 1..Len(output) : output[i].name = "libusb_device_handle"

ErrorNames ==
    {"LIBUSB_ERROR_IO", "LIBUSB_ERROR_INVALID_PARAM", "LIBUSB_ERROR_ACCESS",
     "LIBUSB_ERROR_NO_DEVICE", "LIBUSB_ERROR_NOT_FOUND", "LIBUSB_ERROR_BUSY",
     "LIBUSB_ERROR_TIMEOUT", "LIBUSB_ERROR_PIPE", "LIBUSB_ERROR_INTERRUPTED",
     "LIBUSB_ERROR_NO_MEM", "LIBUSB_ERROR_NOT_SUPPORTED"}

ResultNames == ErrorNames \cup {"LIBUSB_SUCCESS"}

\* C6: LibUSBBridge.h declares each operation of the API subset under
\* libusb's name, with libusb's parameter list and return type (those of
\* libusb.h): init, exit, open by VID/PID, kernel-driver detach and attach,
\* interface claim and release, interrupt transfer, device reset.
C6_DeclaresApiSubset ==
    BridgeRead =>
        \A sig \in
            { <<"libusb_init", "int", <<"libusb_context **">> >>,
              <<"libusb_exit", "void", <<"libusb_context *">> >>,
              <<"libusb_open_device_with_vid_pid", "libusb_device_handle *",
                <<"libusb_context *", "uint16_t", "uint16_t">> >>,
              <<"libusb_detach_kernel_driver", "int",
                <<"libusb_device_handle *", "int">> >>,
              <<"libusb_attach_kernel_driver", "int",
                <<"libusb_device_handle *", "int">> >>,
              <<"libusb_claim_interface", "int",
                <<"libusb_device_handle *", "int">> >>,
              <<"libusb_release_interface", "int",
                <<"libusb_device_handle *", "int">> >>,
              <<"libusb_interrupt_transfer", "int",
                <<"libusb_device_handle *", "unsigned char",
                  "unsigned char *", "int", "int *", "unsigned int">> >>,
              <<"libusb_reset_device", "int",
                <<"libusb_device_handle *">> >> } :
            /\ \E i \in 1..Len(output) :
                  /\ output[i].op = "proto"
                  /\ output[i].name = sig[1]
                  /\ output[i].ret = sig[2]
                  /\ output[i].params = sig[3]
            /\ \A i \in 1..Len(output) :
                  (output[i].op = "proto" /\ output[i].name = sig[1]) =>
                      (output[i].ret = sig[2] /\ output[i].params = sig[3])

\* the header was read and the last prototype of the file was passed on
C6_Witness ==
    /\ BridgeRead
    /\ output # <<>>
    /\ output[Len(output)].name = "libusb_reset_device"

\* C7: the eleven LIBUSB_ERROR_* constants are pairwise distinct, strictly
\* negative and within -12..-1, one value per error kind, and LIBUSB_SUCCESS
\* is 0 and none of them; so a declared result code is an error exactly
\* when it is negative and success exactly when it is zero.
C7_ResultCodesPartition ==
    BridgeRead =>
        /\ ResultNames \subseteq DOMAIN macros
        /\ \A n \in ResultNames : Len(macros[n]) = 1
        /\ \A a, b \in ErrorNames : a # b => MacroValue(a) # MacroValue(b)
        /\ Cardinality({MacroValue(n) : n \in ErrorNames}) = 11
        /\ \A n \in ErrorNames : MacroValue(n) \in -12..-1
        /\ MacroValue("LIBUSB_SUCCESS") = 0
        /\ \A n \in ErrorNames : MacroValue(n) # MacroValue("LIBUSB_SUCCESS")
        /\ \A n \in ResultNames :
              /\ (n \in ErrorNames <=> MacroValue(n) < 0)
              /\ (n = "LIBUSB_SUCCESS" <=> MacroValue(n) = 0)

\* the header was read and all twelve result codes are in the macro table
C7_Witness ==
    /\ BridgeRead
    /\ ResultNames \subseteq DOMAIN macros
    /\ MacroValue("LIBUSB_ERROR_NOT_SUPPORTED") = -12

\* a second or later inclusion of the header being read
LaterInclusion == file # "none" /\ starts[file] >= 2

\* C8: both headers are idempotent under repeated inclusion.  No step taken
\* while a header is read for the second or a later time changes the macro
\* table, the declarations passed on, the system headers included, the
\* errors or the number of header searches; and the shim's search and its
\* #error happen at most once in a translation unit.
C8_IncludeIdempotent ==
    /\ [](searches <= 1 /\ Len(errors) <= 1)
    /\ [][LaterInclusion' =>
            /\ macros' = macros
            /\ output' = output
            /\ included' = included
            /\ errors' = errors
            /\ searches' = searches]_vars

\* shim.h was included at least twice and the search ran once
C8_Witness ==
    /\ phase = "done"
    /\ starts["shim.h"] >= 2
    /\ searches = 1
    /\ Len(Candidates) = 1

\* C9: the endpoint direction encoding is lossless in the unsigned char
\* endpoint parameter.  For the number n of the call, n | LIBUSB_ENDPOINT_IN
\* lies in 128..255 and is not changed by the conversion to unsigned char,
\* n | LIBUSB_ENDPOINT_OUT is n, the two differ, and the direction
\* (value & 0x80) and the number (value & 0x7F) come back from the value
\* that was passed.
C9_EndpointEncodingLossless ==
    lastCall.fn = "libusb_interrupt_transfer" =>
        LET n    == lastCall.number
            in_  == BitOr(n, MacroValue("LIBUSB_ENDPOINT_IN"))
            out_ == BitOr(n, MacroValue("LIBUSB_ENDPOINT_OUT"))
        IN  /\ in_ \in 128..255
            /\ ToUnsignedChar(in_) = in_
            /\ EndpointAddress(n, "LIBUSB_ENDPOINT_IN") = in_
            /\ out_ = n
            /\ EndpointAddress(n, "LIBUSB_ENDPOINT_OUT") = n
            /\ in_ # out_
            /\ BitAnd(lastCall.endpoint, 128) = MacroValue(lastCall.direction)
            /\ BitAnd(lastCall.endpoint, 127) = n
            /\ (BitAnd(lastCall.endpoint, 128) # 0
                    <=> lastCall.direction = "LIBUSB_ENDPOINT_IN")

\* an IN transfer on the highest endpoint number
C9_Witness ==
    /\ lastCall.fn = "libusb_interrupt_transfer"
    /\ lastCall.direction = "LIBUSB_ENDPOINT_IN"
    /\ lastCall.number = 127
    /\ lastCall.endpoint = 255

====
